---- MODULE Spec2Model ----
(***************************************************************************)
(* FileSpanExporter (ragaai_catalyst/tracers/exporters/                    *)
(* file_span_exporter.py): staging of exported span batches in per-trace   *)
(* files and the lagged upload of the previous trace's snapshot.           *)
(*                                                                         *)
(* Spec      : one coordinator, export calls issued one after the other,   *)
(*             each call one atomic action.                                *)
(* SpecConc  : two threads inside export on the same coordinator, one      *)
(*             action per statement group of export.                       *)
(* SpecPrompt: PromptManager operations against the remote prompt store    *)
(*             and PromptObject.compile (prompt_manager.py).               *)
(***************************************************************************)
EXTENDS Integers, Sequences, FiniteSets, TLC

(* ---------------- bounds ---------------- *)
NumTraces ==
  3

MaxBatch ==
  2

MaxCalls ==
  3

(* ---------------- values ---------------- *)
TraceIds ==
  1..NumTraces

\* The Upload Client is an external collaborator: what one call of
\* check_and_upload_files can do.
\*   "true" / "false" : returns a truthy / falsy upload_stat
\*   "error"          : raises an Exception other than asyncio.TimeoutError
\*   "timeout"        : raises asyncio.TimeoutError
\*   "hang"           : the awaited transfer never completes
ClientBehaviours ==
  {"true", "false", "error", "timeout", "hang"}

\* Paths are pairs <<kind, trace id>>; NoPath is the value None of sync_file
\* and of a filename attribute not yet assigned.
NoPath ==
  <<"none", 0>>

JsonlPath(trace_id) ==
  <<"jsonl", trace_id>>

JsonPath(trace_id) ==
  <<"json", trace_id>>

TracerPath ==
  <<"tracer", 0>>

Paths ==
  {JsonlPath(t) : t \in TraceIds} \cup {JsonPath(t) : t \in TraceIds} \cup {TracerPath}

\* A file: whether it exists and the documents its bytes on disk decode to
\* (lines of a .jsonl file, elements of a .json array, the one document of
\* tracer.json).  A .json file that exists with no document is a file whose
\* json.dump output is still in the writer's buffer.
NoFile ==
  [exists |-> FALSE, data |-> <<>>]

File(docs) ==
  [exists |-> TRUE, data |-> docs]

\* A batch of n spans of one trace; the batch is empty for n = 0.
Batch(trace_id, n) ==
  [i \in 1..n |-> [trace_id |-> trace_id, span_id |-> i]]

Batches ==
  {Batch(t, n) : t \in TraceIds, n \in 0..MaxBatch}

VARIABLES
  fs,         \* the files: staging directory and tracer.json
  sync_file,  \* self.sync_file, the upload cursor
  filename,   \* self.filename
  metadata,   \* self.metadata
  pipeline,   \* self.pipeline
  token,      \* whether RAGAAI_CATALYST_TOKEN is set in the environment
  status,     \* "idle", or "blocked" inside a call that can never return
  calls,      \* history: one record per export call, in call order
  pc,         \* SpecConc: position of each thread inside export
  local,      \* SpecConc: the local variables of each thread's export call
  remote,     \* SpecPrompt: the last PromptManager operation and how it ended
  prompt,     \* SpecPrompt: the PromptObject returned by get_prompt
  compiled    \* SpecPrompt: the last PromptObject.compile call and its result

pmvars ==
  <<remote, prompt, compiled>>

vars ==
  <<fs, sync_file, filename, metadata, pipeline, token, status, calls, pc, local,
    remote, prompt, compiled>>

(* ---------------- helpers of export ---------------- *)

\* utils.get_unique_key: a digest of the record's content, the same for the
\* same content and different for different content.  Digest codes a pair
\* (content, rest) with content < base injectively and is never 0.
Digest(content, rest, base) ==
  1 + content + base * rest

\* the caller's mappings are [content, id], id = 0 while the key "id" is absent
MappingContents ==
  {0, 1}

get_unique_key(d) ==
  Digest(d.content, d.id, Cardinality(MappingContents))

\* lines 68-69: self.metadata["id"] = get_unique_key(self.metadata)
AddId(d) ==
  [d EXCEPT !.id = get_unique_key(d)]

\* line 63: trace_id = traces_list[0]["context"]["trace_id"]
TraceIdOf(spans) ==
  spans[1].trace_id

\* lines 72-73: t["prompt_id"] = get_unique_key(t), per span document
WithPromptId(spans) ==
  [i \in 1..Len(spans) |->
     [trace_id |-> spans[i].trace_id, span_id |-> spans[i].span_id,
      prompt_id |-> Digest(spans[i].span_id - 1, spans[i].trace_id, MaxBatch)]]

\* lines 75-82: the envelope, as json.dumps serialises it at that moment
ExportData(spans, md, pl) ==
  [project_name |-> "project", session_id |-> "session",
   trace_id |-> TraceIdOf(spans), traces |-> WithPromptId(spans),
   metadata |-> md, pipeline |-> pl]

\* the file opened with "w" instead of "a"
AppendLine_Truncating(f, env) ==
  File(<<env>>)

\* lines 85-87: open(self.filename, "a") and write one line
AppendLine(f, env) ==
  File(Append(f.data, env))

\* tracer.json opened with "a" instead of "w"
WriteTracer_Appending(f, env) ==
  File(Append(f.data, env))

\* lines 91-93: open(tracer_json_path, "w") and dump the envelope
WriteTracer(f, env) ==
  File(<<env>>)

\* the snapshot rewritten without the documents read back from it
AppendSnapshot_Dropping(f, env) ==
  File(<<env>>)

\* lines 98-103: json.load, data.append(export_data), rewrite the file
AppendSnapshot(f, env) ==
  File(Append(f.data, env))

\* lines 105-108, after the with block has closed the file
CreateSnapshot(env) ==
  File(<<env>>)

\* lines 105-108, while the with block is still open: the file exists, the
\* dumped array is in the buffer
OpenedSnapshot ==
  File(<<>>)

\* the upload attempted in either branch, whenever the cursor is set
UploadTriggered_EveryCall(snapshotExists, cursor) ==
  cursor # NoPath

\* line 97 and line 109: the upload is attempted in the branch that creates
\* the snapshot, when the cursor is set
UploadTriggered(snapshotExists, cursor) ==
  (~snapshotExists) /\ cursor # NoPath

\* _upload_traces without the credential check of lines 144-147
upload_traces_Unchecked(tok, behaviour) ==
  CASE behaviour = "true"    -> "Files uploaded successfully"
    [] behaviour = "false"   -> "No files to upload"
    [] behaviour = "error"   -> "Upload failed"
    [] behaviour = "timeout" -> "AttributeError"
    [] behaviour = "hang"    -> "pending"

\* the snapshot just created handed to _upload_traces
UploadPath_Current(cursor, json_file_path) ==
  json_file_path

\* line 111: the path handed to _upload_traces is self.sync_file
UploadPath(cursor, json_file_path) ==
  cursor

\* lines 143-162: the outcome of _upload_traces
\*   absent token -> ValueError raised before the client is called
\*   TimeoutError -> the handler formats self.upload_timeout, an attribute
\*                   that is never assigned: AttributeError is raised
upload_traces(tok, behaviour) ==
  IF ~tok THEN "ValueError"
  ELSE CASE behaviour = "true"    -> "Files uploaded successfully"
         [] behaviour = "false"   -> "No files to upload"
         [] behaviour = "error"   -> "Upload failed"
         [] behaviour = "timeout" -> "AttributeError"
         [] behaviour = "hang"    -> "pending"

\* line 150: the client is called only past the credential check
ClientCalled(tok) ==
  tok

\* lines 116-121: future.result() returns the string or re-raises
Raised(outcome) ==
  outcome \in {"ValueError", "AttributeError"}

Pending(outcome) ==
  outcome = "pending"

\* how an export call ends, given the outcome of the upload it attempted
ResultOf(outcome) ==
  IF Raised(outcome) THEN outcome
  ELSE IF Pending(outcome) THEN "blocked"
  ELSE "returned"

\* the cursor kept when the upload returned "Upload failed"
NextCursor_RetryFailed(cursor, outcome, json_file_path) ==
  IF Raised(outcome) \/ Pending(outcome) \/ outcome = "Upload failed"
  THEN cursor ELSE json_file_path

\* line 112 is reached only when line 111 returned
NextCursor(cursor, outcome, json_file_path) ==
  IF Raised(outcome) \/ Pending(outcome) THEN cursor ELSE json_file_path

\* the array dumped only after the upload has returned
SnapshotAfterCreate_Late(outcome, env) ==
  IF Pending(outcome) \/ Raised(outcome) THEN OpenedSnapshot ELSE CreateSnapshot(env)

\* the snapshot file when the else branch is left
SnapshotAfterCreate(outcome, env) ==
  IF Pending(outcome) THEN OpenedSnapshot ELSE CreateSnapshot(env)

\* line 112 outside the else branch: the cursor set by every call
CursorAfter_EveryCall(existed, cursor, outcome, json_file_path) ==
  NextCursor(cursor, outcome, json_file_path)

\* lines 97-112: the cursor is assigned in the else branch only
CursorAfter(existed, cursor, outcome, json_file_path) ==
  IF existed THEN cursor ELSE NextCursor(cursor, outcome, json_file_path)

(* ---------------- Spec: sequential export calls ---------------- *)

Threads ==
  {1, 2}

NoLocal ==
  [spans |-> <<>>, trace_id |-> 0, json_file_path |-> NoPath,
   data |-> <<>>, dumped |-> <<>>, ncalls |-> 0, result |-> "none"]

InitCoordinator ==
  /\ fs = [p \in Paths |-> NoFile]
  /\ sync_file = NoPath
  /\ filename = NoPath
  /\ metadata = [content |-> 0, id |-> 0]
  /\ pipeline = [content |-> 1, id |-> 0]
  /\ token \in BOOLEAN
  /\ status = "idle"
  /\ calls = <<>>

\* no PromptManager operation made, no PromptObject obtained
NoRemote ==
  [op |-> "none", responses |-> <<>>, known |-> TRUE, version |-> "none", raised |-> {}]

NoPrompt ==
  [exists |-> FALSE, text |-> <<>>]

NoCompile ==
  [done |-> FALSE, kwargs |-> <<>>, raised |-> "none", text |-> <<>>]

InitPromptVars ==
  /\ remote = NoRemote
  /\ prompt = NoPrompt
  /\ compiled = NoCompile

Init ==
  /\ InitCoordinator
  /\ pc = [t \in Threads |-> "idle"]
  /\ local = [t \in Threads |-> NoLocal]
  /\ InitPromptVars

\* calls are issued one after the other; a call that never returns is the
\* caller's last
CanCall ==
  /\ status = "idle"
  /\ Len(calls) < MaxCalls

\* the trace id read only after tracer.json has been opened for writing
ExportEmpty_AfterTracer(spans) ==
  /\ CanCall
  /\ spans = <<>>
  /\ fs' = [fs EXCEPT ![TracerPath] = File(<<>>)]
  /\ calls' = Append(calls, [spans |-> spans, trace_id |-> 0, env |-> <<>>,
                             attempts |-> <<>>, client |-> <<>>,
                             behaviour |-> "none", outcome |-> "none",
                             result |-> "IndexError"])
  /\ UNCHANGED <<sync_file, filename, metadata, pipeline, status>>
  /\ UNCHANGED <<token, pc, local, pmvars>>

\* export called with an empty batch: line 63 raises IndexError
ExportEmpty(spans) ==
  /\ CanCall
  /\ spans = <<>>
  /\ calls' = Append(calls, [spans |-> spans, trace_id |-> 0, env |-> <<>>,
                             attempts |-> <<>>, client |-> <<>>,
                             behaviour |-> "none", outcome |-> "none",
                             result |-> "IndexError"])
  /\ UNCHANGED <<fs, sync_file, filename, metadata, pipeline, status>>
  /\ UNCHANGED <<token, pc, local, pmvars>>

\* export called with a non-empty batch, lines 62-112
ExportBatch(spans, behaviour) ==
  /\ CanCall
  /\ spans # <<>>
  /\ UNCHANGED <<token, pc, local, pmvars>>
  /\ LET trace_id == TraceIdOf(spans)
         md == AddId(metadata)
         pl == AddId(pipeline)
         env == ExportData(spans, md, pl)
         json_file_path == JsonPath(trace_id)
         existed == fs[json_file_path].exists
         upload == UploadTriggered(existed, sync_file)
         outcome == IF upload THEN upload_traces(token, behaviour) ELSE "none"
         fs1 == [fs EXCEPT ![JsonlPath(trace_id)] = AppendLine(@, env)]
         fs2 == [fs1 EXCEPT ![TracerPath] = WriteTracer(@, env)]
     IN
       /\ filename' = JsonlPath(trace_id)
       /\ metadata' = md
       /\ pipeline' = pl
       /\ fs' = IF existed
                THEN [fs2 EXCEPT ![json_file_path] = AppendSnapshot(@, env)]
                ELSE [fs2 EXCEPT ![json_file_path] = SnapshotAfterCreate(outcome, env)]
       /\ sync_file' = CursorAfter(existed, sync_file, outcome, json_file_path)
       /\ status' = IF Pending(outcome) THEN "blocked" ELSE "idle"
       /\ calls' = Append(calls,
            [spans |-> spans, trace_id |-> trace_id, env |-> <<env>>,
             attempts |-> IF upload THEN <<UploadPath(sync_file, json_file_path)>> ELSE <<>>,
             client |-> IF upload /\ ClientCalled(token)
                        THEN <<UploadPath(sync_file, json_file_path)>> ELSE <<>>,
             behaviour |-> IF upload /\ ClientCalled(token) THEN behaviour ELSE "none",
             outcome |-> outcome,
             result |-> ResultOf(outcome)])

export(spans, behaviour) ==
  \/ ExportEmpty(spans)
  \/ ExportBatch(spans, behaviour)

Next ==
  \E spans \in Batches, behaviour \in ClientBehaviours : export(spans, behaviour)

Spec ==
  Init /\ [][Next]_vars

(* ---------------- reading the call history ---------------- *)

NCalls ==
  Len(calls)

HasTrace(i) ==
  calls[i].spans # <<>>

TraceOfCall(i) ==
  calls[i].spans[1].trace_id

\* call i is the first export of its trace id
FirstExport(i) ==
  /\ HasTrace(i)
  /\ \A j \in 1..(i - 1) : HasTrace(j) => TraceOfCall(j) # TraceOfCall(i)

\* the first exports before call i
EarlierFirsts(i) ==
  {j \in 1..(i - 1) : FirstExport(j)}

MaxOf(S) ==
  CHOOSE m \in S : \A n \in S : n <= m

\* the envelopes of the calls for trace id t, in call order
RECURSIVE EnvsUpTo(_, _)
EnvsUpTo(t, n) ==
  IF n = 0 THEN <<>>
  ELSE IF HasTrace(n) /\ TraceOfCall(n) = t
       THEN Append(EnvsUpTo(t, n - 1), calls[n].env[1])
       ELSE EnvsUpTo(t, n - 1)

EnvsFor(t) ==
  EnvsUpTo(t, NCalls)

IsPrefix(s, t) ==
  /\ Len(s) <= Len(t)
  /\ \A i \in 1..Len(s) : s[i] = t[i]

\* some trace got two exports with an export of another trace in between
Interleaved(t) ==
  \E i, j, k \in 1..NCalls :
     /\ i < j /\ j < k
     /\ HasTrace(i) /\ HasTrace(j) /\ HasTrace(k)
     /\ TraceOfCall(i) = t /\ TraceOfCall(k) = t /\ TraceOfCall(j) # t

(* ---------------- C1 ---------------- *)
\* C1: with the credential present, a call attempts an upload exactly when it
\* is the first export of its trace id and an earlier first export exists,
\* the one path handed to the Upload Client is the snapshot of the previously
\* first-seen trace id, and the snapshot of the most recently first-seen
\* trace id is never handed to the Upload Client.
C1_LaggedUploadTrigger ==
  token =>
    \A i \in 1..NCalls :
      /\ (calls[i].attempts # <<>>) <=> (FirstExport(i) /\ EarlierFirsts(i) # {})
      /\ calls[i].attempts # <<>> =>
           calls[i].client = <<JsonPath(TraceOfCall(MaxOf(EarlierFirsts(i))))>>
      /\ \A k \in 1..NCalls :
           (FirstExport(k) /\ \A m \in (k + 1)..NCalls : ~FirstExport(m))
             => calls[i].client # <<JsonPath(TraceOfCall(k))>>

(* ---------------- C2 ---------------- *)
\* C2: the file T.jsonl holds exactly the envelopes of the calls for trace id
\* T, one line each, in call order, and a step never rewrites or removes a
\* line that is already there.
C2_Lines ==
  \A t \in TraceIds :
     /\ fs[JsonlPath(t)].data = EnvsFor(t)
     /\ fs[JsonlPath(t)].exists <=> EnvsFor(t) # <<>>

C2_AppendOnly ==
  [](C2_Lines) /\
  [][\A t \in TraceIds : IsPrefix(fs[JsonlPath(t)].data, fs'[JsonlPath(t)].data)]_vars

C2_Witness ==
  \E t \in TraceIds : Interleaved(t) /\ Len(fs[JsonlPath(t)].data) >= 2

(* ---------------- C3 ---------------- *)
\* C3: once every call has ended, the snapshot T.json holds exactly the
\* envelopes of the calls for trace id T, in call order.
C3_SnapshotAccumulation ==
  status = "idle" =>
    \A t \in TraceIds :
       /\ fs[JsonPath(t)].data = EnvsFor(t)
       /\ fs[JsonPath(t)].exists <=> EnvsFor(t) # <<>>

C3_Witness ==
  /\ status = "idle"
  /\ \E t \in TraceIds : Interleaved(t) /\ Len(fs[JsonPath(t)].data) >= 2

(* ---------------- C4 ---------------- *)
\* the staging writes of the last call are on disk: its envelope is the last
\* line of the trace's jsonl file, the content of tracer.json and the last
\* element of the trace's snapshot
StagedLast ==
  LET c == calls[NCalls]
      t == TraceOfCall(NCalls)
      lines == fs[JsonlPath(t)].data
      snap == fs[JsonPath(t)].data
  IN /\ lines # <<>> /\ lines[Len(lines)] = c.env[1]
     /\ fs[TracerPath] = File(c.env)
     /\ snap # <<>> /\ snap[Len(snap)] = c.env[1]

\* C4: when the Upload Client raises (any exception, a timeout error
\* included), the export call returns normally, the exception is captured as
\* a Failed or TimedOut outcome, and the staging writes of the call are done.
C4_NonFatalUploadFailure ==
  (NCalls > 0 /\ calls[NCalls].behaviour \in {"error", "timeout"}) =>
     /\ calls[NCalls].result = "returned"
     /\ calls[NCalls].outcome \in {"Upload failed", "Upload timed out"}
     /\ StagedLast

(* ---------------- C5 ---------------- *)
\* C5: an upload attempt without the credential raises the configuration
\* error out of export and does not call the Upload Client, and the staging
\* writes of that export call are on disk: the jsonl line, tracer.json and
\* the newly created one-element snapshot.
C5_MissingCredential ==
  (NCalls > 0 /\ calls[NCalls].attempts # <<>> /\ ~token) =>
     /\ calls[NCalls].outcome = "ValueError"
     /\ calls[NCalls].result = "ValueError"
     /\ calls[NCalls].client = <<>>
     /\ StagedLast
     /\ fs[JsonPath(TraceOfCall(NCalls))] = File(calls[NCalls].env)

C5_Witness ==
  NCalls > 1 /\ calls[NCalls].attempts # <<>> /\ ~token

(* ---------------- C6 ---------------- *)
\* C6: when the transfer does not complete (it never completes, or the
\* client gives up with a timeout error), the attempt ends with the outcome
\* TimedOut and the export call returns.
C6_BoundedWait ==
  \A i \in 1..NCalls :
     calls[i].behaviour \in {"hang", "timeout"} =>
        /\ calls[i].outcome = "Upload timed out"
        /\ calls[i].result = "returned"

(* ---------------- C7 ---------------- *)
\* C7: after an export call that was the first export of trace id T has
\* ended, the cursor holds T's snapshot path, whatever the upload did.
C7_CursorAdvance ==
  (NCalls > 0 /\ FirstExport(NCalls) /\ calls[NCalls].result # "blocked") =>
     sync_file = JsonPath(TraceOfCall(NCalls))

(* ---------------- C8 ---------------- *)
\* C8 as stated: a call whose trace id differs from that of the call right
\* before it makes exactly one upload attempt, a call whose trace id equals
\* it makes none.
C8_Original ==
  \A i \in 2..NCalls :
     (HasTrace(i) /\ HasTrace(i - 1)) =>
        /\ TraceOfCall(i) # TraceOfCall(i - 1) => Len(calls[i].attempts) = 1
        /\ TraceOfCall(i) = TraceOfCall(i - 1) => Len(calls[i].attempts) = 0

\* C8 amended: a call makes exactly one upload attempt when it is the first
\* export of its trace id and not the first export of any trace on this
\* coordinator; every other call makes none, in particular a call whose trace
\* id equals that of the call right before it.
C8_OnePerNewTrace ==
  \A i \in 1..NCalls :
     /\ Len(calls[i].attempts) =
          (IF FirstExport(i) /\ EarlierFirsts(i) # {} THEN 1 ELSE 0)
     /\ (i > 1 /\ HasTrace(i) /\ HasTrace(i - 1)
           /\ TraceOfCall(i) = TraceOfCall(i - 1)) => calls[i].attempts = <<>>

\* exports for A, B, A: B's first export attempts one upload, the return to A
\* attempts none
C8_Witness ==
  \E i \in 1..NCalls :
     /\ i + 2 <= NCalls
     /\ HasTrace(i) /\ HasTrace(i + 1) /\ HasTrace(i + 2)
     /\ TraceOfCall(i + 1) # TraceOfCall(i)
     /\ TraceOfCall(i + 2) = TraceOfCall(i)
     /\ Len(calls[i + 1].attempts) = 1
     /\ calls[i + 2].attempts = <<>>

(* ---------------- C9 ---------------- *)
\* C9: an export call with zero spans raises and leaves every file as it
\* was: no jsonl file, snapshot or tracer.json is created or modified.
C9_EmptyBatchRejection ==
  [][(Len(calls') = Len(calls) + 1 /\ calls'[Len(calls')].spans = <<>>) =>
       (/\ calls'[Len(calls')].result = "IndexError"
        /\ fs' = fs)]_vars

C9_Witness ==
  /\ NCalls > 1
  /\ calls[NCalls].spans = <<>>
  /\ calls[NCalls].result = "IndexError"
  /\ fs[TracerPath].exists

(* ---------------- C11 ---------------- *)
\* the exports of each trace id are consecutive: no trace id gets an export
\* after a different trace id has been exported since
Contiguous ==
  \A i, j, k \in 1..NCalls :
     (i < j /\ j < k /\ HasTrace(i) /\ HasTrace(j) /\ HasTrace(k)
        /\ TraceOfCall(i) = TraceOfCall(k)) => TraceOfCall(j) = TraceOfCall(i)

\* an upload of the snapshot of call j's trace id was attempted in call i
UploadedBefore(i, j) ==
  /\ i < j
  /\ HasTrace(j)
  /\ calls[i].attempts = <<JsonPath(TraceOfCall(j))>>

\* C11 as stated: once an upload has been attempted for T's snapshot, no
\* later export call is an export for T (every export for T appends to T's
\* snapshot).
C11_Original ==
  \A i, j \in 1..NCalls : ~UploadedBefore(i, j)

\* C11 amended: the call that attempts the upload of T's snapshot is never an
\* export for T, and as long as the exports of each trace id are consecutive
\* no export for T follows the attempt; when T resumes after another trace id
\* has started, the later export does append to the uploaded snapshot.
C11_FinishedUnlessResumed ==
  /\ \A i \in 1..NCalls :
        calls[i].attempts # <<>> => calls[i].attempts # <<JsonPath(TraceOfCall(i))>>
  /\ Contiguous => \A i, j \in 1..NCalls : ~UploadedBefore(i, j)
  /\ status = "idle" =>
       \A i, j \in 1..NCalls :
          UploadedBefore(i, j) =>
             \E n \in 1..Len(fs[JsonPath(TraceOfCall(j))].data) :
                fs[JsonPath(TraceOfCall(j))].data[n] = calls[j].env[1]

\* A, B, B: A's snapshot is uploaded by B's first export and B goes on
C11_Witness ==
  /\ NCalls = 3
  /\ Contiguous
  /\ calls[2].attempts # <<>>
  /\ HasTrace(3)
  /\ TraceOfCall(3) = TraceOfCall(2)

(* ---------------- C12 ---------------- *)
\* the calls that reached the staging writes
Staged ==
  {i \in 1..NCalls : HasTrace(i)}

\* C12: tracer.json holds exactly one envelope, that of the latest call that
\* reached the staging writes; it does not exist before the first such call.
C12_LastExportFile ==
  IF Staged = {} THEN fs[TracerPath] = NoFile
  ELSE fs[TracerPath] = File(calls[MaxOf(Staged)].env)

C12_Witness ==
  /\ Cardinality(Staged) >= 2
  /\ \E i \in Staged : calls[i].env # calls[MaxOf(Staged)].env

(* ---------------- C14 ---------------- *)
\* C14: a step changes the cursor only when it is an export call that creates
\* the snapshot of its trace id, and then to that snapshot's path; an export
\* for a trace id whose snapshot exists leaves the cursor as it was.  The
\* cursor is one path or unset.
C14_CursorFrame ==
  [][/\ sync_file' \in {JsonPath(t) : t \in TraceIds} \cup {NoPath}
     /\ sync_file' # sync_file =>
          /\ Len(calls') = Len(calls) + 1
          /\ calls'[Len(calls')].spans # <<>>
          /\ ~fs[JsonPath(calls'[Len(calls')].spans[1].trace_id)].exists
          /\ fs'[JsonPath(calls'[Len(calls')].spans[1].trace_id)].exists
          /\ sync_file' = JsonPath(calls'[Len(calls')].spans[1].trace_id)
     /\ (/\ Len(calls') = Len(calls) + 1
         /\ calls'[Len(calls')].spans # <<>>
         /\ fs[JsonPath(calls'[Len(calls')].spans[1].trace_id)].exists)
          => sync_file' = sync_file]_vars

\* A, B, A: the cursor is on B's snapshot and the return to A left it there
C14_Witness ==
  /\ NCalls = 3
  /\ HasTrace(1) /\ HasTrace(2) /\ HasTrace(3)
  /\ TraceOfCall(3) = TraceOfCall(1)
  /\ TraceOfCall(2) # TraceOfCall(1)
  /\ sync_file = JsonPath(TraceOfCall(2))

(* ---------------- C15 ---------------- *)
ReturnedOutcomes ==
  {"Files uploaded successfully", "No files to upload",
   "Upload timed out", "Upload failed"}

AllAttemptsReturned ==
  \A i \in 1..NCalls : calls[i].attempts # <<>> => calls[i].outcome \in ReturnedOutcomes

\* C15: when every upload attempt returned an outcome, no snapshot path was
\* handed to the Upload Client twice, and every snapshot handed to it is
\* still on disk with all the envelopes of its trace.
C15_NoRetry ==
  AllAttemptsReturned =>
    /\ \A i, j \in 1..NCalls :
          (i # j /\ calls[i].client # <<>>) => calls[i].client # calls[j].client
    /\ \A i \in 1..NCalls :
          calls[i].client # <<>> =>
             /\ fs[calls[i].client[1]].exists
             /\ fs[calls[i].client[1]].data # <<>>

\* a failed upload of one snapshot, then a later upload of another
C15_Witness ==
  /\ AllAttemptsReturned
  /\ \E i, j \in 1..NCalls :
        /\ i < j
        /\ calls[i].outcome = "Upload failed"
        /\ calls[j].client # <<>>

(* ---------------- C16 ---------------- *)
\* C16: once every call has ended, returned or raised, the jsonl file and the
\* snapshot of every trace id hold the same envelopes in the same order.
C16_StagingConsistency ==
  status = "idle" =>
    \A t \in TraceIds :
       /\ fs[JsonlPath(t)].exists <=> fs[JsonPath(t)].exists
       /\ fs[JsonlPath(t)].data = fs[JsonPath(t)].data

\* the last call raised out of the upload, an earlier one out of line 63
C16_Witness ==
  /\ status = "idle"
  /\ NCalls = 3
  /\ calls[NCalls].result \in {"ValueError", "AttributeError"}
  /\ \E i \in 1..NCalls : calls[i].result = "IndexError"

(* ---------------- C17 ---------------- *)
\* C17: every envelope written by the coordinator carries the same
\* metadata.id and the same pipeline.id.
C17_StableIds ==
  \A i, j \in Staged :
     /\ calls[i].env[1].metadata.id = calls[j].env[1].metadata.id
     /\ calls[i].env[1].pipeline.id = calls[j].env[1].pipeline.id

(* ---------------- SpecConc: two threads inside export ---------------- *)

MaxThreadCalls ==
  2

MaxConcCalls ==
  3

\* export calls entered so far by all threads
RECURSIVE ConcCalls(_)
ConcCalls(T) ==
  IF T = {} THEN 0
  ELSE LET t == CHOOSE x \in T : TRUE
       IN local[t].ncalls + ConcCalls(T \ {t})

\* thread t exports batches of trace id t
ThreadTrace(t) ==
  t

\* the envelope as serialised now: export_data holds references to
\* self.metadata and self.pipeline, read when json.dumps / json.dump runs
EnvNow(t) ==
  ExportData(local[t].spans, metadata, pipeline)

\* leaving the with block of lines 105-112 closes the snapshot file
CloseSnapshot(t) ==
  [fs EXCEPT ![local[t].json_file_path] = File(local[t].dumped)]

\* a thread enters export(spans)
c_call(t, n) ==
  /\ pc[t] \in {"idle", "done"}
  /\ local[t].ncalls < MaxThreadCalls
  /\ ConcCalls(Threads) < MaxConcCalls
  /\ local' = [local EXCEPT ![t] = [NoLocal EXCEPT !.spans = Batch(ThreadTrace(t), n),
                                                    !.ncalls = local[t].ncalls + 1]]
  /\ pc' = [pc EXCEPT ![t] = "trace"]
  /\ UNCHANGED <<fs, sync_file, filename, metadata, pipeline>>
  /\ UNCHANGED <<token, status, calls, pmvars>>

\* lines 62-65: trace_id (IndexError on an empty batch), self.filename
c_trace(t) ==
  /\ pc[t] = "trace"
  /\ IF local[t].spans = <<>>
     THEN /\ local' = [local EXCEPT ![t].result = "IndexError"]
          /\ pc' = [pc EXCEPT ![t] = "done"]
          /\ UNCHANGED filename
     ELSE /\ local' = [local EXCEPT ![t].trace_id = TraceIdOf(local[t].spans)]
          /\ filename' = JsonlPath(TraceIdOf(local[t].spans))
          /\ pc' = [pc EXCEPT ![t] = "metadata"]
  /\ UNCHANGED <<fs, sync_file, metadata, pipeline>>
  /\ UNCHANGED <<token, status, calls, pmvars>>

\* line 68
c_metadata(t) ==
  /\ pc[t] = "metadata"
  /\ metadata' = AddId(metadata)
  /\ pc' = [pc EXCEPT ![t] = "pipeline"]
  /\ UNCHANGED <<fs, sync_file, filename, pipeline, local>>
  /\ UNCHANGED <<token, status, calls, pmvars>>

\* line 69
c_pipeline(t) ==
  /\ pc[t] = "pipeline"
  /\ pipeline' = AddId(pipeline)
  /\ pc' = [pc EXCEPT ![t] = "line"]
  /\ UNCHANGED <<fs, sync_file, filename, metadata, local>>
  /\ UNCHANGED <<token, status, calls, pmvars>>

\* lines 84-87: json_file_path, then one line appended to self.filename
c_line(t) ==
  /\ pc[t] = "line"
  /\ local' = [local EXCEPT ![t].json_file_path = JsonPath(local[t].trace_id)]
  /\ fs' = [fs EXCEPT ![filename] = AppendLine(@, EnvNow(t))]
  /\ pc' = [pc EXCEPT ![t] = "tracer"]
  /\ UNCHANGED <<sync_file, filename, metadata, pipeline>>
  /\ UNCHANGED <<token, status, calls, pmvars>>

\* lines 90-93
c_tracer(t) ==
  /\ pc[t] = "tracer"
  /\ fs' = [fs EXCEPT ![TracerPath] = WriteTracer(@, EnvNow(t))]
  /\ pc' = [pc EXCEPT ![t] = "exists"]
  /\ UNCHANGED <<sync_file, filename, metadata, pipeline, local>>
  /\ UNCHANGED <<token, status, calls, pmvars>>

\* line 97
c_exists(t) ==
  /\ pc[t] = "exists"
  /\ pc' = [pc EXCEPT ![t] = IF fs[local[t].json_file_path].exists THEN "read" ELSE "create"]
  /\ UNCHANGED <<fs, sync_file, filename, metadata, pipeline, local>>
  /\ UNCHANGED <<token, status, calls, pmvars>>

\* lines 98-100
c_read(t) ==
  /\ pc[t] = "read"
  /\ local' = [local EXCEPT ![t].data = fs[local[t].json_file_path].data]
  /\ pc' = [pc EXCEPT ![t] = "rewrite"]
  /\ UNCHANGED <<fs, sync_file, filename, metadata, pipeline>>
  /\ UNCHANGED <<token, status, calls, pmvars>>

\* lines 101-103
c_rewrite(t) ==
  /\ pc[t] = "rewrite"
  /\ fs' = [fs EXCEPT ![local[t].json_file_path] = AppendSnapshot(File(local[t].data), EnvNow(t))]
  /\ local' = [local EXCEPT ![t].result = "returned"]
  /\ pc' = [pc EXCEPT ![t] = "done"]
  /\ UNCHANGED <<sync_file, filename, metadata, pipeline>>
  /\ UNCHANGED <<token, status, calls, pmvars>>

\* lines 105-108
c_create(t) ==
  /\ pc[t] = "create"
  /\ local' = [local EXCEPT ![t].dumped = <<EnvNow(t)>>]
  /\ fs' = [fs EXCEPT ![local[t].json_file_path] = OpenedSnapshot]
  /\ pc' = [pc EXCEPT ![t] = "upload"]
  /\ UNCHANGED <<sync_file, filename, metadata, pipeline>>
  /\ UNCHANGED <<token, status, calls, pmvars>>

\* lines 109-111
c_upload(t, behaviour) ==
  /\ pc[t] = "upload"
  /\ LET upload == UploadTriggered(FALSE, sync_file)
         outcome == IF upload THEN upload_traces(token, behaviour) ELSE "none"
     IN /\ local' = [local EXCEPT ![t].result =
                        IF ResultOf(outcome) = "returned" THEN "none" ELSE ResultOf(outcome)]
        /\ pc' = [pc EXCEPT ![t] = IF Raised(outcome) THEN "done"
                                   ELSE IF Pending(outcome) THEN "blocked" ELSE "cursor"]
        /\ fs' = IF Raised(outcome) THEN CloseSnapshot(t) ELSE fs
  /\ UNCHANGED <<sync_file, filename, metadata, pipeline>>
  /\ UNCHANGED <<token, status, calls, pmvars>>

\* line 112 and the end of the with block
c_cursor(t) ==
  /\ pc[t] = "cursor"
  /\ sync_file' = NextCursor(sync_file, "none", local[t].json_file_path)
  /\ fs' = CloseSnapshot(t)
  /\ local' = [local EXCEPT ![t].result = "returned"]
  /\ pc' = [pc EXCEPT ![t] = "done"]
  /\ UNCHANGED <<filename, metadata, pipeline>>
  /\ UNCHANGED <<token, status, calls, pmvars>>

InitConc ==
  /\ InitCoordinator
  /\ pc = [t \in Threads |-> "idle"]
  /\ local = [t \in Threads |-> NoLocal]
  /\ InitPromptVars

NextConc ==
  \E t \in Threads :
       \/ \E n \in 0..MaxBatch : c_call(t, n)
       \/ c_trace(t)
       \/ c_metadata(t)
       \/ c_pipeline(t)
       \/ c_line(t)
       \/ c_tracer(t)
       \/ c_exists(t)
       \/ c_read(t)
       \/ c_rewrite(t)
       \/ c_create(t)
       \/ \E behaviour \in ClientBehaviours : c_upload(t, behaviour)
       \/ c_cursor(t)

SpecConc ==
  InitConc /\ [][NextConc]_vars

\* the parts of an envelope that say whose it is
SameBatch(env, spans) ==
  /\ env.trace_id = TraceIdOf(spans)
  /\ env.traces = WithPromptId(spans)

\* both threads have made one export call with a non-empty batch and both
\* calls have ended
BothEnded ==
  \A t \in Threads :
     /\ pc[t] = "done"
     /\ local[t].ncalls = 1
     /\ local[t].spans # <<>>

(* ---------------- C10 ---------------- *)
\* C10: after two concurrent export calls for different trace ids, each
\* trace's jsonl file holds exactly the one envelope of its own call and so
\* does each trace's snapshot.
C10_CrossTraceIndependence ==
  BothEnded =>
    \A t \in Threads :
       LET lines == fs[JsonlPath(ThreadTrace(t))].data
           snap == fs[JsonPath(ThreadTrace(t))].data
       IN /\ Len(lines) = 1 /\ SameBatch(lines[1], local[t].spans)
          /\ Len(snap) = 1 /\ SameBatch(snap[1], local[t].spans)

(* ---------------- SpecPrompt: prompt_manager.py ---------------- *)

\* An exception is the set of the classes it is an instance of (the classes
\* the except clauses of prompt_manager.py name, and ValueError); the empty
\* set is a normal return.
NoException ==
  {}

TransportError ==
  {"RequestException"}

KeyErrorExc ==
  {"KeyError"}

IndexErrorExc ==
  {"IndexError"}

\* json.JSONDecodeError, raised by response.json() of requests before 2.27
StdJSONDecodeError ==
  {"JSONDecodeError", "ValueError"}

\* requests.exceptions.JSONDecodeError, raised by response.json() since
\* requests 2.27: a subclass of both RequestException and json.JSONDecodeError
ReqJSONDecodeError ==
  {"JSONDecodeError", "ValueError", "RequestException"}

\* raise ValueError(...) / raise requests.RequestException(...)
NewValueError ==
  {"ValueError"}

NewRequestException ==
  {"RequestException"}

\* What the remote store answers to one request.
\*   "transport"    : requests.get or raise_for_status raises
\*   "bad_json_std" / "bad_json_req" : the body is not JSON, by the installed
\*                    requests version's exception class
\*   "missing_key"  : a key the code reads is absent from the JSON body
\*   "no_docs"      : data.docs is an empty list
Responses ==
  {"ok", "transport", "bad_json_std", "bad_json_req", "missing_key", "no_docs"}

\* the requests of prompt_manager.py
Sites ==
  {"projects", "list1", "list2", "versions", "by_version", "prompt"}

\* the requests whose body is read as data.docs[0]
DocsSites ==
  {"by_version", "prompt"}

\* requests.get(...) and response.raise_for_status()
TransportPart(resp) ==
  IF resp = "transport" THEN TransportError ELSE NoException

\* response.json()[...] and the reads of the body
ParsePart(site, resp) ==
  CASE resp = "bad_json_std" -> StdJSONDecodeError
    [] resp = "bad_json_req" -> ReqJSONDecodeError
    [] resp = "missing_key"  -> KeyErrorExc
    [] resp = "no_docs" /\ site \in DocsSites -> IndexErrorExc
    [] OTHER -> NoException

\* a try body that sends the request and reads the body
BodyError(site, resp) ==
  IF TransportPart(resp) # NoException THEN TransportPart(resp) ELSE ParsePart(site, resp)

\* try/except: the first clause naming a class of the exception handles it
\* and raises its own exception; an exception no clause names propagates
RECURSIVE HandleFrom(_, _, _)
HandleFrom(exc, clauses, i) ==
  IF exc = NoException \/ i > Len(clauses) THEN exc
  ELSE IF exc \cap clauses[i].catch # {} THEN clauses[i].raises
  ELSE HandleFrom(exc, clauses, i + 1)

Handle(exc, clauses) ==
  HandleFrom(exc, clauses, 1)

OnRequestException ==
  [catch |-> {"RequestException"}, raises |-> NewRequestException]

OnKeyOrJson ==
  [catch |-> {"KeyError", "JSONDecodeError"}, raises |-> NewValueError]

OnKeyJsonOrIndex ==
  [catch |-> {"KeyError", "JSONDecodeError", "IndexError"}, raises |-> NewValueError]

\* Prompt.list_prompts, lines 167-175
Prompt_list_prompts(r, site) ==
  Handle(BodyError(site, r[site]), <<OnRequestException, OnKeyOrJson>>)

\* Prompt.get_prompt_by_version, lines 194-205
Prompt_get_prompt_by_version(r, site) ==
  Handle(BodyError(site, r[site]), <<OnRequestException, OnKeyJsonOrIndex>>)

\* Prompt.list_prompt_versions, lines 257-269: the version names, then the
\* text of each version (one version is listed)
Prompt_list_prompt_versions(r) ==
  LET names == BodyError("versions", r["versions"])
      body == IF names # NoException THEN names
              ELSE Prompt_get_prompt_by_version(r, "by_version")
  IN Handle(body, <<OnRequestException, OnKeyOrJson>>)

\* Prompt.get_prompt, lines 224-239
Prompt_get_prompt(r, version) ==
  LET body == IF version # "none" THEN Prompt_get_prompt_by_version(r, "prompt")
              ELSE BodyError("prompt", r["prompt"])
  IN Handle(body, <<OnRequestException, OnKeyJsonOrIndex>>)

\* PromptManager.__init__, lines 31-57: the request in one try, the parsing
\* in another, then the project looked up in the list
PromptManager_init(r, known) ==
  LET sent == Handle(TransportPart(r["projects"]), <<OnRequestException>>)
      parsed == Handle(ParsePart("projects", r["projects"]), <<OnKeyOrJson>>)
  IN IF sent # NoException THEN sent
     ELSE IF parsed # NoException THEN parsed
     ELSE IF ~known THEN NewValueError
     ELSE NoException

\* PromptManager.list_prompts, lines 70-75
PromptManager_list_prompts(r, site) ==
  Handle(Prompt_list_prompts(r, site), <<OnRequestException>>)

\* PromptManager.list_prompt_versions, lines 129-142
PromptManager_list_prompt_versions(r, known) ==
  LET listed == Handle(PromptManager_list_prompts(r, "list2"), <<OnRequestException>>)
  IN IF listed # NoException THEN listed
     ELSE IF ~known THEN NewValueError
     ELSE Handle(Prompt_list_prompt_versions(r), <<OnRequestException>>)

\* PromptManager.get_prompt, lines 92-113
PromptManager_get_prompt(r, known, version) ==
  LET listed == Handle(PromptManager_list_prompts(r, "list1"), <<OnRequestException>>)
      versions == Handle(PromptManager_list_prompt_versions(r, known), <<OnRequestException>>)
  IN IF listed # NoException THEN listed
     ELSE IF ~known THEN NewValueError
     ELSE IF versions # NoException THEN versions
     ELSE IF version = "unknown" THEN NewValueError
     ELSE Handle(Prompt_get_prompt(r, version), <<OnRequestException>>)

Operations ==
  {"init", "list_prompts", "list_prompt_versions", "get_prompt"}

\* how an operation ends
Outcome(op, r, known, version) ==
  CASE op = "init" -> PromptManager_init(r, known)
    [] op = "list_prompts" -> PromptManager_list_prompts(r, "list1")
    [] op = "list_prompt_versions" -> PromptManager_list_prompt_versions(r, known)
    [] op = "get_prompt" -> PromptManager_get_prompt(r, known, version)

\* the store answers every request well except at most one; an empty docs
\* list is an answer to the requests that read data.docs
ResponseMaps ==
  {[s \in Sites |-> IF s = site /\ (resp = "no_docs" => s \in DocsSites) THEN resp ELSE "ok"] :
      site \in Sites, resp \in Responses}

Versions ==
  {"none", "known", "unknown"}

(* ---------------- PromptObject ---------------- *)

\* Texts are sequences of characters.
MaxPieces ==
  2

Open ==
  <<"{", "{">>

Close ==
  <<"}", "}">>

\* the pieces prompt texts are made of: {{a}}, {{ a }}, {{b}}, {{"a"}}, x
Pieces ==
  { Open \o <<"a">> \o Close,
    Open \o <<" ", "a", " ">> \o Close,
    Open \o <<"b">> \o Close,
    Open \o <<"\"", "a", "\"">> \o Close,
    <<"x">> }

RECURSIVE TextsOf(_)
TextsOf(n) ==
  IF n = 0 THEN {<<>>}
  ELSE TextsOf(n - 1) \cup {t \o q : t \in TextsOf(n - 1), q \in Pieces}

Texts ==
  TextsOf(MaxPieces)

\* keyword names and values of compile(**kwargs)
Names ==
  {<<"a">>, <<"b">>}

Values ==
  {<<"1">>}

\* kwargs keep their order; a name occurs once
Kwargs ==
  {<<>>}
  \cup {<<[key |-> k, value |-> v]>> : k \in Names, v \in Values}
  \cup {<<[key |-> ks[1], value |-> v1], [key |-> ks[2], value |-> v2]>> :
          ks \in {pr \in Names \X Names : pr[1] # pr[2]}, v1 \in Values, v2 \in Values}

\* pat occurs in text at position i
OccursAt(text, pat, i) ==
  /\ i + Len(pat) - 1 <= Len(text)
  /\ \A k \in 1..Len(pat) : text[i + k - 1] = pat[k]

\* the first position >= i where pat occurs in text, 0 when there is none
Find(text, pat, i) ==
  LET hits == {j \in i..Len(text) : OccursAt(text, pat, j)}
  IN IF hits = {} THEN 0 ELSE CHOOSE j \in hits : \A k \in hits : j <= k

\* re.findall(r'\{\{(.*?)\}\}', text) from position i: the leftmost "{{",
\* the shortest group up to the next "}}", then on after that "}}"
RECURSIVE findall(_, _)
findall(text, i) ==
  LET start == Find(text, Open, i)
      stop == IF start = 0 THEN 0 ELSE Find(text, Close, start + 2)
  IN IF start = 0 \/ stop = 0 THEN <<>>
     ELSE <<SubSeq(text, start + 2, stop - 1)>> \o findall(text, stop + 2)

\* str.strip()
RECURSIVE strip(_)
strip(w) ==
  IF w = <<>> THEN w
  ELSE IF w[1] = " " THEN strip(Tail(w))
  ELSE IF w[Len(w)] = " " THEN strip(SubSeq(w, 1, Len(w) - 1))
  ELSE w

HasQuote(w) ==
  \E k \in 1..Len(w) : w[k] = "\""

\* PromptObject.get_variables, lines 327-329
get_variables(text) ==
  LET matches == SelectSeq(findall(text, 1), LAMBDA w : ~HasQuote(w))
  IN [k \in 1..Len(matches) |-> strip(matches[k])]

SetOf(q) ==
  {q[k] : k \in 1..Len(q)}

\* str.replace(old, new) from position i, occurrences taken left to right
RECURSIVE replace(_, _, _, _)
replace(text, old, new, i) ==
  IF i > Len(text) THEN <<>>
  ELSE IF OccursAt(text, old, i) THEN new \o replace(text, old, new, i + Len(old))
  ELSE <<text[i]>> \o replace(text, old, new, i + 1)

\* the placeholder compile looks for: f"{{{{{key}}}}}"
Placeholder(key) ==
  Open \o key \o Close

\* lines 315-317: one replace per keyword, in keyword order
RECURSIVE ReplaceAll(_, _, _)
ReplaceAll(text, kwargs, n) ==
  IF n > Len(kwargs) THEN text
  ELSE ReplaceAll(replace(text, Placeholder(kwargs[n].key), kwargs[n].value, 1), kwargs, n + 1)

ProvidedNames(kwargs) ==
  {kwargs[k].key : k \in 1..Len(kwargs)}

\* PromptObject.compile, lines 304-318
compile(text, kwargs) ==
  LET required_variables == SetOf(get_variables(text))
      provided_variables == ProvidedNames(kwargs)
  IN IF required_variables \ provided_variables # {}
        \/ provided_variables \ required_variables # {}
     THEN [done |-> TRUE, kwargs |-> kwargs, raised |-> "ValueError", text |-> <<>>]
     ELSE [done |-> TRUE, kwargs |-> kwargs, raised |-> "none",
           text |-> ReplaceAll(text, kwargs, 1)]

(* ---------------- actions of SpecPrompt ---------------- *)

\* a PromptManager operation other than a get_prompt that returns; the caller
\* works with the result of its latest operation only
pm_call(op, r, known, version) ==
  /\ op # "get_prompt" => version = "none"
  /\ op = "list_prompts" => known
  /\ Outcome(op, r, known, version) # NoException \/ op # "get_prompt"
  /\ remote' = [op |-> op, responses |-> r, known |-> known, version |-> version,
                raised |-> Outcome(op, r, known, version)]
  /\ prompt' = NoPrompt
  /\ compiled' = NoCompile
  /\ UNCHANGED <<fs, sync_file, filename, metadata, pipeline, token, status, calls, pc, local>>

\* get_prompt returns PromptObject(prompt_text), lines 231-235
pm_get_prompt(r, version, text) ==
  /\ Outcome("get_prompt", r, TRUE, version) = NoException
  /\ remote' = [op |-> "get_prompt", responses |-> r, known |-> TRUE, version |-> version,
                raised |-> NoException]
  /\ prompt' = [exists |-> TRUE, text |-> text]
  /\ compiled' = NoCompile
  /\ UNCHANGED <<fs, sync_file, filename, metadata, pipeline, token, status, calls, pc, local>>

\* PromptObject.compile(**kwargs)
po_compile(kwargs) ==
  /\ prompt.exists
  /\ compiled' = compile(prompt.text, kwargs)
  /\ UNCHANGED <<remote, prompt>>
  /\ UNCHANGED <<fs, sync_file, filename, metadata, pipeline, token, status, calls, pc, local>>

InitPrompt ==
  /\ InitCoordinator
  /\ token
  /\ pc = [t \in Threads |-> "idle"]
  /\ local = [t \in Threads |-> NoLocal]
  /\ InitPromptVars

NextPrompt ==
  \/ \E op \in Operations, r \in ResponseMaps, known \in BOOLEAN, version \in Versions :
        pm_call(op, r, known, version)
  \/ \E r \in ResponseMaps, version \in Versions, text \in Texts :
        pm_get_prompt(r, version, text)
  \/ \E kwargs \in Kwargs : po_compile(kwargs)

SpecPrompt ==
  InitPrompt /\ [][NextPrompt]_vars

(* ---------------- C13 ---------------- *)
\* the requests an operation sends when every name it is given is known, in
\* the order it sends them
CallOrder(op) ==
  CASE op = "init" -> <<"projects">>
    [] op = "list_prompts" -> <<"list1">>
    [] op = "list_prompt_versions" -> <<"list2", "versions", "by_version">>
    [] op = "get_prompt" -> <<"list1", "list2", "versions", "by_version", "prompt">>
    [] OTHER -> <<>>

Faulty(site, resp) ==
  resp # "ok" /\ (resp = "no_docs" => site \in DocsSites)

\* the answer that ended the operation: the first faulty one it received
FirstFault(op, r) ==
  LET order == CallOrder(op)
      bad == {k \in 1..Len(order) : Faulty(order[k], r[order[k]])}
  IN IF bad = {} THEN "ok"
     ELSE r[order[CHOOSE k \in bad : \A m \in bad : k <= m]]

Malformed ==
  {"bad_json_std", "bad_json_req", "missing_key"}

\* C13: an operation ended by a malformed response body (invalid JSON or a
\* missing key) raises a ValueError that is not a RequestException, and an
\* operation ended by a transport or HTTP error raises a RequestException
\* that is not a ValueError.
C13_ErrorTaxonomy ==
  (remote.op # "none" /\ remote.known /\ remote.version # "unknown") =>
     LET fault == FirstFault(remote.op, remote.responses)
     IN /\ fault \in Malformed =>
             ("ValueError" \in remote.raised /\ "RequestException" \notin remote.raised)
        /\ fault = "transport" =>
             ("RequestException" \in remote.raised /\ "ValueError" \notin remote.raised)

(* ---------------- C18 ---------------- *)
\* C18: compile raises ValueError exactly when the keyword names are not the
\* set get_variables() returns, and otherwise returns a text in which no
\* placeholder of a required variable is left.
C18_Compile ==
  compiled.done =>
     LET required == SetOf(get_variables(prompt.text))
         provided == ProvidedNames(compiled.kwargs)
     IN /\ (compiled.raised = "ValueError") <=> (provided # required)
        /\ provided = required =>
             \A v \in required : v \notin SetOf(get_variables(compiled.text))

====
